---- MODULE Spec2Model ----
(***************************************************************************)
(* bdiff: block-based signature / delta / patch (src/bdiff.py).            *)
(*                                                                         *)
(* Streams are sequences of bytes (integers 0..255).  The three operations *)
(* are Python generators; every action below is the code that runs between*)
(* two yields (or up to a raise).                                          *)
(*                                                                         *)
(* Spec        the pipeline signature -> delta -> patch over regular files *)
(*             (every read returns all the bytes asked for that remain),   *)
(*             with the signature and delta files optionally damaged       *)
(*             between the stages.                                         *)
(* SpecReader  __read_blocks alone over a source whose reads may be short. *)
(***************************************************************************)
EXTENDS Integers, Sequences, FiniteSets, TLC

----------------------------------------------------------------------------
(* Bounds of the model.                                                    *)

MaxLen == 3            \* longest basis / new file drawn in Init
MaxBlockSize == 2      \* block sizes 1..MaxBlockSize are drawn in Init
MaxSourceLen == 14     \* longest source drawn in InitReader
MaxChunkSize == 13     \* chunk sizes 1..MaxChunkSize are drawn in InitReader

(* Program constants.                                                      *)

VERSION == 2           \* __VERSION
DigestLen == 16        \* md5 digest length, chunk size of the signature scan
ChecksumLen == 32      \* sha256 digest length
MagicLen == 7          \* len('bdif' + 'sig')
IntLen == 4            \* struct 'i'
RetryLimit == 10       \* "if block_tries > 10"

TagC == 67             \* 'C'
TagD == 68             \* 'D'
TagE == 69             \* 'E'
TagH == 72             \* 'H'

SigMagic == <<98, 100, 105, 102, 115, 105, 103>>       \* 'bdif' + 'sig'
DltMagic == <<98, 100, 105, 102, 100, 108, 116>>       \* 'bdif' + 'dlt'

(* The messages of the exceptions the code raises.                         *)

NoError == "none"
NotSigFile == "Not a bdiff sig file"
UnknownSigVersion == "Unknown signature file version"
NotDeltaFile == "Not a bdiff delta file"
UnknownDeltaVersion == "Unknown delta file version"
IncorrectlyFormatted == "Incorrectly formatted delta file"
HashMismatch == "Hash mismatch in new file"
StructError == "struct.error"
SeekError == "IOError: Invalid argument"
BlockError == "Could not get proper size block"

----------------------------------------------------------------------------
(* Byte-level helpers.                                                     *)

Min(a, b) == IF a < b THEN a ELSE b

RECURSIVE Flatten(_)
Flatten(chunks) ==
  IF chunks = <<>> THEN <<>> ELSE Head(chunks) \o Flatten(Tail(chunks))

Zeros(n) == [i \in 1..n |-> 0]

(* file_object.read(n) of a regular file at offset pos: the next n bytes,  *)
(* fewer at end of file, everything that remains when n is negative.       *)
FileRead(data, pos, n) ==
  IF n < 0 THEN SubSeq(data, pos + 1, Len(data))
  ELSE SubSeq(data, pos + 1, Min(pos + n, Len(data)))

(* struct.pack('i', n): 4 bytes, little-endian two's complement.           *)
Pack(n) ==
  LET m  == IF n < 0 THEN n + 2147483647 + 1 ELSE n
      b0 == m % 256
      b1 == (m \div 256) % 256
      b2 == (m \div 65536) % 256
      b3 == (m \div 16777216) + (IF n < 0 THEN 128 ELSE 0)
  IN  <<b0, b1, b2, b3>>

(* struct.unpack('i', bytes)[0]; defined for exactly 4 bytes.              *)
Unpack(b) ==
  b[1] + 256 * b[2] + 65536 * b[3]
    + 16777216 * (IF b[4] >= 128 THEN b[4] - 256 ELSE b[4])

(* md5(block).digest(): 16 bytes.  The hash is idealised as collision-free:*)
(* length byte, the block, zero padding (blocks of at most 15 bytes).      *)
Md5(block) ==
  IF Len(block) < DigestLen
  THEN <<Len(block)>> \o block \o Zeros(DigestLen - 1 - Len(block))
  ELSE <<255>> \o SubSeq(block, 1, DigestLen - 1)

(* sha256 object fed with data, .digest(): 32 bytes, collision-free for    *)
(* data of at most 31 bytes.                                               *)
Sha256(data) ==
  IF Len(data) < ChecksumLen
  THEN <<Len(data)>> \o data \o Zeros(ChecksumLen - 1 - Len(data))
  ELSE <<255>> \o SubSeq(data, 1, ChecksumLen - 1)

SupportedVersion_AtLeast(version) == version >= 2

(* The version test "version == 2" of __delta and __patch.                 *)
SupportedVersion(version) == version = 2

ReadBlock_FullOnly(data, pos, chunk_size) ==
  IF Len(data) - pos < chunk_size THEN <<>>
  ELSE FileRead(data, pos, chunk_size)

(* One iteration of __read_blocks over a regular file: the first read      *)
(* returns the whole chunk, or what remains; the retry read at end of file *)
(* returns nothing.  <<>> means the generator is exhausted.                *)
ReadBlock(data, pos, chunk_size) == FileRead(data, pos, chunk_size)

----------------------------------------------------------------------------
(* State.                                                                  *)

VARIABLES
  pc,              \* position of the pipeline
  basis,           \* bytes of the basis file
  new_file,        \* bytes of the new file
  block_size,      \* block size given to signature()
  sig_pos,         \* signature: offset of basis_file
  sig_out,         \* signature: the blocks yielded so far
  sig_file,        \* delta: bytes of the signature file it is given
  sig_rpos,        \* delta: offset of sig_file
  d_block_size,    \* delta: block size read from the signature header
  signatures,      \* delta: the dict digest -> block number
  new_pos,         \* delta: offset of new_file
  new_reads,       \* delta: number of read calls made on new_file
  d_file_h,        \* delta: bytes fed to the sha256 object so far
  d_out,           \* delta: the blocks yielded so far
  d_err,           \* delta: the exception raised, NoError if none
  damage,          \* what was done to the delta file before patch
  p_basis,         \* patch: bytes of the basis file it is given
  delta_file,      \* patch: bytes of the delta file it is given
  delta_pos,       \* patch: offset of delta_file
  basis_reads,     \* patch: number of seek/read calls made on basis_file
  p_block_size,    \* patch: block size read from the delta header
  p_file_h,        \* patch: bytes fed to the sha256 object so far
  file_h_target,   \* patch: the target checksum, <<>> until an H is read
  p_out,           \* patch: the data blocks yielded so far
  p_log,           \* patch: the instructions executed so far
  p_err,           \* patch: the exception raised, NoError if none
  r_pc,            \* __read_blocks: position of the generator
  r_src,           \* __read_blocks: bytes of the source
  r_chunk_size,    \* __read_blocks: chunk size asked for
  r_pos,           \* __read_blocks: offset of the source
  r_data,          \* __read_blocks: data, the chunk being assembled
  block_tries,     \* __read_blocks: retries counted for this chunk
  r_reads,         \* __read_blocks: read calls made for this chunk
  r_out,           \* __read_blocks: the chunks yielded so far
  r_err            \* __read_blocks: the exception raised, NoError if none

sigVars == <<sig_pos, sig_out>>
deltaVars == <<sig_file, sig_rpos, d_block_size, signatures, new_pos,
               new_reads, d_file_h, d_out, d_err>>
patchVars == <<damage, p_basis, delta_file, delta_pos, basis_reads,
               p_block_size, p_file_h, file_h_target, p_out, p_log, p_err>>
inputVars == <<basis, new_file, block_size>>
readerVars == <<r_pc, r_src, r_chunk_size, r_pos, r_data, block_tries,
                r_reads, r_out, r_err>>
vars == <<pc, inputVars, sigVars, deltaVars, patchVars, readerVars>>

----------------------------------------------------------------------------
(* Inputs.                                                                 *)

Bytes == {65, 66}                                      \* 'A', 'B'
FilesUpTo(n) == UNION {[1..k -> Bytes] : k \in 0..n}
Files == FilesUpTo(MaxLen)
BlockSizes == 1..MaxBlockSize

(* The scenarios of the design's section 8: basis, new file, block size.   *)
Scenarios ==
  { << <<65,65,65,65,66,66,66,66>>, <<66,66,66,66,65,65,65,65>>, 4 >>,
    << <<65,65,65,65,66,66,66,66>>, <<65,65,65,65,66,66,66,88>>, 4 >>,
    << <<65,65,65,65,66,66,66,66>>, <<65,66,88>>, 4 >> }

(* Values written over one byte of a signature or delta file.              *)
DamageValues == {0, 255}

(* The state of the pipeline before signature() is called.                 *)
PipelineFresh ==
  /\ sig_pos = 0
  /\ sig_out = <<>>
  /\ sig_file = <<>>
  /\ sig_rpos = 0
  /\ d_block_size = 0
  /\ signatures = <<>>
  /\ new_pos = 0
  /\ new_reads = 0
  /\ d_file_h = <<>>
  /\ d_out = <<>>
  /\ d_err = NoError
  /\ damage = "none"
  /\ p_basis = <<>>
  /\ delta_file = <<>>
  /\ delta_pos = 0
  /\ basis_reads = 0
  /\ p_block_size = 0
  /\ p_file_h = <<>>
  /\ file_h_target = <<>>
  /\ p_out = <<>>
  /\ p_log = <<>>
  /\ p_err = NoError

(* The state of a block reader that is not run.                            *)
ReaderIdle ==
  /\ r_pc = "idle"
  /\ r_src = <<>>
  /\ r_chunk_size = 0
  /\ r_pos = 0
  /\ r_data = <<>>
  /\ block_tries = 0
  /\ r_reads = 0
  /\ r_out = <<>>
  /\ r_err = NoError

Init ==
  /\ \/ /\ basis \in Files
        /\ new_file \in Files
        /\ block_size \in BlockSizes
     \/ \E s \in Scenarios :
          /\ basis = s[1]
          /\ new_file = s[2]
          /\ block_size = s[3]
  /\ pc = "signature"
  /\ PipelineFresh
  /\ ReaderIdle

----------------------------------------------------------------------------
(* __signature                                                             *)

(* The header block: 'bdif' + 'sig' + version + block size.                *)
SigHeader ==
  /\ pc = "signature"
  /\ sig_out' = <<SigMagic \o Pack(VERSION) \o Pack(block_size)>>
  /\ pc' = "signature.blocks"
  /\ UNCHANGED <<inputVars, sig_pos, deltaVars, patchVars>>
  /\ UNCHANGED readerVars

(* One iteration of the loop over the blocks of the basis file.            *)
SigBlock ==
  /\ pc = "signature.blocks"
  /\ LET block == ReadBlock(basis, sig_pos, block_size) IN
       /\ block # <<>>
       /\ sig_out' = Append(sig_out, Md5(block))
       /\ sig_pos' = sig_pos + Len(block)
  /\ UNCHANGED <<pc, inputVars, deltaVars, patchVars>>
  /\ UNCHANGED readerVars

(* The basis file is exhausted: the generator ends.  The signature file is *)
(* what signature() wrote, or that with one byte of its header overwritten.*)
HeaderLen == MagicLen + IntLen + IntLen

Overwrite(data, i, v) == [data EXCEPT ![i] = v]

SigEnd ==
  /\ pc = "signature.blocks"
  /\ ReadBlock(basis, sig_pos, block_size) = <<>>
  /\ LET written == Flatten(sig_out) IN
       \/ sig_file' = written
       \/ \E i \in 1..(MagicLen + IntLen), v \in DamageValues :
            /\ written[i] # v
            /\ sig_file' = Overwrite(written, i, v)
  /\ pc' = "delta"
  /\ UNCHANGED <<inputVars, sigVars, sig_rpos, d_block_size, signatures,
                 new_pos, new_reads, d_file_h, d_out, d_err, patchVars>>
  /\ UNCHANGED readerVars

----------------------------------------------------------------------------
(* __delta                                                                 *)

(* The loop "for block in __read_blocks(sig_file, 16)": every 16-byte      *)
(* block of the rest of the signature file is stored under its position;   *)
(* a digest stored before is overwritten.                                  *)
Store_KeepFirst(table, key, value) ==
  IF key \in DOMAIN table THEN table
  ELSE [k \in (DOMAIN table) \cup {key} |-> IF k = key THEN value ELSE table[k]]

Store(table, key, value) ==
  [k \in (DOMAIN table) \cup {key} |-> IF k = key THEN value ELSE table[k]]

RECURSIVE LoadSignatures(_, _, _, _)
LoadSignatures(data, pos, block_number, table) ==
  LET block == ReadBlock(data, pos, DigestLen) IN
    IF block = <<>> THEN table
    ELSE LoadSignatures(data, pos + Len(block), block_number + 1,
                        Store(table, block, block_number))

Instruction_NoShort(block, table, size) ==
  LET block_hash == Md5(block) IN
    IF block_hash \in DOMAIN table
    THEN <<TagC>> \o Pack(table[block_hash])
    ELSE <<TagD>> \o block

Instruction_DefaultCopy(block, table, size) ==
  LET block_hash == Md5(block) IN
    <<TagC>> \o Pack(IF block_hash \in DOMAIN table
                     THEN table[block_hash] ELSE 0)

(* The d_block yielded for one block of the new file.                      *)
Instruction(block, table, size) ==
  LET block_hash == Md5(block) IN
    IF block_hash \in DOMAIN table
    THEN <<TagC>> \o Pack(table[block_hash])
    ELSE IF Len(block) = size
    THEN <<TagD>> \o block
    ELSE <<TagE>> \o Pack(Len(block)) \o block

(* Number of read calls __read_blocks makes for a block of a regular file: *)
(* a short block costs the retry read that finds the end of the file.      *)
ReadCalls(block, chunk_size) ==
  IF block # <<>> /\ Len(block) < chunk_size THEN 2 ELSE 1

dFail(err) ==
  /\ d_err' = err
  /\ pc' = "done"
  /\ UNCHANGED <<d_block_size, d_out>>

(* From the call to the first yield: magic, version, block size, header.   *)
DeltaHeader ==
  /\ pc = "delta"
  /\ LET magic == FileRead(sig_file, 0, MagicLen)
         version_bytes == FileRead(sig_file, MagicLen, IntLen)
         block_size_bytes == FileRead(sig_file, MagicLen + IntLen, IntLen)
     IN
       /\ sig_rpos' = Min(Len(sig_file),
                          IF magic # SigMagic THEN MagicLen
                          ELSE IF Len(version_bytes) < IntLen
                                  \/ ~SupportedVersion(Unpack(version_bytes))
                          THEN MagicLen + IntLen
                          ELSE HeaderLen)
       /\ IF magic # SigMagic THEN dFail(NotSigFile)
          ELSE IF Len(version_bytes) < IntLen THEN dFail(StructError)
          ELSE IF ~SupportedVersion(Unpack(version_bytes)) THEN dFail(UnknownSigVersion)
          ELSE IF Len(block_size_bytes) < IntLen THEN dFail(StructError)
          ELSE /\ d_block_size' = Unpack(block_size_bytes)
               /\ d_out' = <<DltMagic \o Pack(VERSION) \o block_size_bytes>>
               /\ d_err' = d_err
               /\ pc' = "delta.signatures"
  /\ UNCHANGED <<inputVars, sigVars, sig_file, signatures, new_pos,
                 new_reads, d_file_h, patchVars>>
  /\ UNCHANGED readerVars

(* The signatures are read into memory.                                    *)
DeltaSignatures ==
  /\ pc = "delta.signatures"
  /\ signatures' = LoadSignatures(sig_file, sig_rpos, 0, <<>>)
  /\ sig_rpos' = Len(sig_file)
  /\ pc' = "delta.blocks"
  /\ UNCHANGED <<inputVars, sigVars, sig_file, d_block_size, new_pos,
                 new_reads, d_file_h, d_out, d_err, patchVars>>
  /\ UNCHANGED readerVars

(* One iteration of the loop over the blocks of the new file.              *)
DeltaBlock ==
  /\ pc = "delta.blocks"
  /\ LET block == ReadBlock(new_file, new_pos, d_block_size) IN
       /\ block # <<>>
       /\ new_pos' = new_pos + Len(block)
       /\ new_reads' = new_reads + ReadCalls(block, d_block_size)
       /\ d_file_h' = d_file_h \o block
       /\ d_out' = Append(d_out, Instruction(block, signatures, d_block_size))
  /\ UNCHANGED <<pc, inputVars, sigVars, sig_file, sig_rpos, d_block_size,
                 signatures, d_err, patchVars>>
  /\ UNCHANGED readerVars

DeltaChecksum_NoYield ==
  /\ pc = "delta.blocks"
  /\ ReadBlock(new_file, new_pos, d_block_size) = <<>>
  /\ new_reads' = new_reads + 1
  /\ pc' = "delta.done"
  /\ UNCHANGED <<inputVars, sigVars, sig_file, sig_rpos, d_block_size,
                 signatures, new_pos, d_file_h, d_out, d_err, patchVars>>
  /\ UNCHANGED readerVars

(* The new file is exhausted: the complete file hash is yielded.           *)
DeltaChecksum ==
  /\ pc = "delta.blocks"
  /\ ReadBlock(new_file, new_pos, d_block_size) = <<>>
  /\ new_reads' = new_reads + 1
  /\ d_out' = Append(d_out, <<TagH>> \o Sha256(d_file_h))
  /\ pc' = "delta.done"
  /\ UNCHANGED <<inputVars, sigVars, sig_file, sig_rpos, d_block_size,
                 signatures, new_pos, d_file_h, d_err, patchVars>>
  /\ UNCHANGED readerVars

----------------------------------------------------------------------------
(* The files handed to patch: the basis file and the delta file written by *)
(* delta(), as they are or damaged on the way.                             *)

(* Bytes that follow the H instruction of a delta file: a Copy, a Literal  *)
(* of one block, a second H, a byte that is no mode.                       *)
TrailingBytes ==
  { <<TagC>> \o Pack(0),
    <<TagD>> \o [i \in 1..block_size |-> 65],
    <<TagH>> \o Sha256(<<>>),
    <<0>> }

PatchInput ==
  /\ pc = "delta.done"
  /\ LET written == Flatten(d_out) IN
       \/ /\ damage' = "none"
          /\ p_basis' = basis
          /\ delta_file' = written
       \/ /\ damage' = "basis"
          /\ p_basis' \in (Files \cup {Overwrite(basis, i, b) :
                                         i \in 1..Len(basis), b \in Bytes})
                            \ {basis}
          /\ delta_file' = written
       \/ /\ damage' = "truncated"
          /\ p_basis' = basis
          /\ \E n \in 0..(Len(written) - 1) :
               delta_file' = SubSeq(written, 1, n)
       \/ /\ damage' = "byte"
          /\ p_basis' = basis
          /\ \E i \in 1..Len(written), v \in DamageValues :
               /\ written[i] # v
               /\ delta_file' = Overwrite(written, i, v)
       \/ /\ damage' = "trailing"
          /\ p_basis' = basis
          /\ \E extra \in TrailingBytes :
               delta_file' = written \o extra
  /\ pc' = "patch"
  /\ UNCHANGED <<inputVars, sigVars, deltaVars, delta_pos, basis_reads,
                 p_block_size, p_file_h, file_h_target, p_out, p_log, p_err>>
  /\ UNCHANGED readerVars

----------------------------------------------------------------------------
(* __patch                                                                 *)

CopyData_Unscaled(data, block_number, size) ==
  FileRead(data, block_number, size)

CopyData_WholeRest(data, block_number, size) ==
  FileRead(data, block_number * size, -1)

(* Copy mode: seek to the block, read one block of the basis file.         *)
CopyData(data, block_number, size) ==
  FileRead(data, block_number * size, size)

HashCheck_Skipped(fed, target) == NoError

(* The comparison that follows the instruction loop.                       *)
HashCheck(fed, target) ==
  IF Sha256(fed) = target THEN NoError ELSE HashMismatch

Entry(mode, arg, data) == [mode |-> mode, arg |-> arg, data |-> data]

pFail(err) ==
  /\ p_err' = err
  /\ pc' = "done"

(* From the call to the instruction loop: magic, version, block size.      *)
PatchHeader ==
  /\ pc = "patch"
  /\ LET magic == FileRead(delta_file, 0, MagicLen)
         version_bytes == FileRead(delta_file, MagicLen, IntLen)
         block_size_bytes == FileRead(delta_file, MagicLen + IntLen, IntLen)
     IN
       /\ delta_pos' = Min(Len(delta_file),
                           IF magic # DltMagic THEN MagicLen
                           ELSE IF Len(version_bytes) < IntLen
                                   \/ ~SupportedVersion(Unpack(version_bytes))
                           THEN MagicLen + IntLen
                           ELSE HeaderLen)
       /\ IF magic # DltMagic THEN pFail(NotDeltaFile) /\ UNCHANGED p_block_size
          ELSE IF Len(version_bytes) < IntLen
          THEN pFail(StructError) /\ UNCHANGED p_block_size
          ELSE IF ~SupportedVersion(Unpack(version_bytes))
          THEN pFail(UnknownDeltaVersion) /\ UNCHANGED p_block_size
          ELSE IF Len(block_size_bytes) < IntLen
          THEN pFail(StructError) /\ UNCHANGED p_block_size
          ELSE /\ p_block_size' = Unpack(block_size_bytes)
               /\ p_err' = p_err
               /\ pc' = "patch.instructions"
  /\ UNCHANGED <<inputVars, sigVars, deltaVars, damage, p_basis, delta_file,
                 basis_reads, p_file_h, file_h_target, p_out, p_log>>
  /\ UNCHANGED readerVars

(* The state after "yield data; file_h.update(data)".                      *)
pYield(mode, arg, data, consumed) ==
  /\ delta_pos' = Min(Len(delta_file), delta_pos + consumed)
  /\ p_out' = Append(p_out, data)
  /\ p_file_h' = p_file_h \o data
  /\ p_log' = Append(p_log, Entry(mode, arg, data))
  /\ UNCHANGED <<pc, p_err, file_h_target>>

(* The state after a raise inside the loop, consumed bytes further on.     *)
pRaise(err, consumed) ==
  /\ delta_pos' = Min(Len(delta_file), delta_pos + consumed)
  /\ pFail(err)
  /\ UNCHANGED <<p_out, p_file_h, p_log, file_h_target, basis_reads>>

ChecksumMode_Continue ==
  LET target == FileRead(delta_file, delta_pos + 1, ChecksumLen) IN
    /\ delta_pos' = delta_pos + 1 + Len(target)
    /\ file_h_target' = target
    /\ p_log' = Append(p_log, Entry(TagH, 0, target))
    /\ UNCHANGED <<pc, p_err, p_out, p_file_h, basis_reads>>

(* Mode H: the target checksum is read, the loop is left, and the          *)
(* comparison after the loop ends the generator.                           *)
ChecksumMode ==
  LET target == FileRead(delta_file, delta_pos + 1, ChecksumLen) IN
    /\ delta_pos' = delta_pos + 1 + Len(target)
    /\ file_h_target' = target
    /\ p_log' = Append(p_log, Entry(TagH, 0, target))
    /\ pFail(HashCheck(p_file_h, target))
    /\ UNCHANGED <<p_out, p_file_h, basis_reads>>

UnknownMode_Skip ==
  /\ delta_pos' = delta_pos + 1
  /\ UNCHANGED <<pc, p_err, p_out, p_file_h, p_log, file_h_target,
                 basis_reads>>

(* A mode byte that is none of C, D, E, H.                                 *)
UnknownMode == pRaise(IncorrectlyFormatted, 1)

(* One iteration of the instruction loop that reads a mode byte.           *)
PatchInstruction ==
  /\ pc = "patch.instructions"
  /\ LET mode == FileRead(delta_file, delta_pos, 1)
         word == FileRead(delta_file, delta_pos + 1, IntLen)
     IN
       /\ mode # <<>>
       /\ IF mode = <<TagC>> THEN
            IF Len(word) < IntLen THEN pRaise(StructError, 1 + IntLen)
            ELSE IF Unpack(word) * p_block_size < 0
            THEN pRaise(SeekError, 1 + IntLen)
            ELSE /\ pYield(TagC, Unpack(word),
                           CopyData(p_basis, Unpack(word), p_block_size),
                           1 + IntLen)
                 /\ basis_reads' = basis_reads + 1
          ELSE IF mode = <<TagD>> THEN
            LET data == FileRead(delta_file, delta_pos + 1, p_block_size) IN
              /\ pYield(TagD, 0, data, 1 + Len(data))
              /\ UNCHANGED basis_reads
          ELSE IF mode = <<TagE>> THEN
            IF Len(word) < IntLen THEN pRaise(StructError, 1 + IntLen)
            ELSE
              LET data == FileRead(delta_file, delta_pos + 1 + IntLen,
                                   Unpack(word))
              IN /\ pYield(TagE, Unpack(word), data, 1 + IntLen + Len(data))
                 /\ UNCHANGED basis_reads
          ELSE IF mode = <<TagH>> THEN ChecksumMode
          ELSE UnknownMode
  /\ UNCHANGED <<inputVars, sigVars, deltaVars, damage, p_basis, delta_file,
                 p_block_size>>
  /\ UNCHANGED readerVars

(* The mode byte read is empty: the loop is left with no target checksum.  *)
PatchEndOfFile ==
  /\ pc = "patch.instructions"
  /\ FileRead(delta_file, delta_pos, 1) = <<>>
  /\ pFail(HashCheck(p_file_h, file_h_target))
  /\ UNCHANGED <<inputVars, sigVars, deltaVars, damage, p_basis, delta_file,
                 delta_pos, basis_reads, p_block_size, p_file_h,
                 file_h_target, p_out, p_log>>
  /\ UNCHANGED readerVars

----------------------------------------------------------------------------
(* __read_blocks over a source whose reads may be short: a read of n bytes *)
(* returns between 1 and n of the bytes that remain, and nothing only when *)
(* none remains.                                                           *)

ReadSizes(pos, n) ==
  IF pos >= Len(r_src) \/ n <= 0 THEN {0}
  ELSE 1..Min(n, Len(r_src) - pos)

InitReader ==
  /\ pc = "idle"
  /\ basis = <<>>
  /\ new_file = <<>>
  /\ block_size = 0
  /\ PipelineFresh
  /\ r_pc = "read"
  /\ \E n \in 0..MaxSourceLen : r_src = [i \in 1..n |-> i]
  /\ r_chunk_size \in 1..MaxChunkSize
  /\ r_pos = 0
  /\ r_data = <<>>
  /\ block_tries = 0
  /\ r_reads = 0
  /\ r_out = <<>>
  /\ r_err = NoError

rYieldOrFill_NoRetry(data) ==
  /\ r_pc' = "read"
  /\ r_data' = <<>>
  /\ r_out' = Append(r_out, data)

(* "yield data", or on to the retry loop while the chunk is incomplete.    *)
rYieldOrFill(data) ==
  IF Len(data) < r_chunk_size
  THEN /\ r_pc' = "fill"
       /\ r_data' = data
       /\ r_out' = r_out
  ELSE /\ r_pc' = "read"
       /\ r_data' = <<>>
       /\ r_out' = Append(r_out, data)

(* Top of the outer loop: the first read of a chunk.                       *)
ReaderRead ==
  /\ r_pc = "read"
  /\ \E k \in ReadSizes(r_pos, r_chunk_size) :
       LET data == SubSeq(r_src, r_pos + 1, r_pos + k) IN
         /\ r_pos' = r_pos + k
         /\ r_reads' = 1
         /\ block_tries' = 0
         /\ IF data = <<>>
            THEN /\ r_pc' = "ended"
                 /\ UNCHANGED <<r_data, r_out>>
            ELSE rYieldOrFill(data)
  /\ UNCHANGED <<pc, inputVars, sigVars, deltaVars, patchVars, r_src,
                 r_chunk_size, r_err>>

Accumulate_Reversed(data, more_data) == more_data \o data

Accumulate_Dropped(data, more_data) == more_data

(* "data = data + more_data".                                              *)
Accumulate(data, more_data) == data \o more_data

RetriesExhausted_Never(tries) == FALSE

(* The test "block_tries > 10" after a retry that returned data.           *)
RetriesExhausted(tries) == tries > RetryLimit

(* One iteration of the retry loop: len(data) < chunk_size.                *)
ReaderRetry ==
  /\ r_pc = "fill"
  /\ \E k \in ReadSizes(r_pos, r_chunk_size - Len(r_data)) :
       LET more_data == SubSeq(r_src, r_pos + 1, r_pos + k) IN
         /\ r_pos' = r_pos + k
         /\ r_reads' = r_reads + 1
         /\ IF more_data = <<>>
            THEN /\ r_pc' = "read"
                 /\ r_out' = Append(r_out, r_data)
                 /\ r_data' = <<>>
                 /\ UNCHANGED <<block_tries, r_err>>
            ELSE /\ block_tries' = block_tries + 1
                 /\ IF RetriesExhausted(block_tries + 1)
                    THEN /\ r_pc' = "failed"
                         /\ r_err' = BlockError
                         /\ r_data' = Accumulate(r_data, more_data)
                         /\ r_out' = r_out
                    ELSE /\ rYieldOrFill(Accumulate(r_data, more_data))
                         /\ r_err' = r_err
  /\ UNCHANGED <<pc, inputVars, sigVars, deltaVars, patchVars, r_src,
                 r_chunk_size>>

NextReader ==
  \/ ReaderRead
  \/ ReaderRetry

SpecReader == InitReader /\ [][NextReader]_vars

(* The consumers of the generator (the for loops of __signature and        *)
(* __delta) ask for the next chunk until it ends or raises.                *)
SpecReaderFair == SpecReader /\ WF_vars(NextReader)

(* What __signature has yielded when its block reader has yielded r_out:   *)
(* the header block, then the md5 digest of every chunk.                   *)
SigYielded ==
  <<SigMagic \o Pack(VERSION) \o Pack(r_chunk_size)>>
    \o [j \in 1..Len(r_out) |-> Md5(r_out[j])]

----------------------------------------------------------------------------
Next ==
  \/ SigHeader
  \/ SigBlock
  \/ SigEnd
  \/ DeltaHeader
  \/ DeltaSignatures
  \/ DeltaBlock
  \/ DeltaChecksum
  \/ PatchInput
  \/ PatchHeader
  \/ PatchInstruction
  \/ PatchEndOfFile

Spec == Init /\ [][Next]_vars

----------------------------------------------------------------------------
(* Vocabulary of the properties.                                           *)

(* The blocks of a file, by arithmetic on offsets.                         *)
NumBlocks(data, size) == (Len(data) + size - 1) \div size
BlockAt(data, i, size) ==
  SubSeq(data, i * size + 1, Min((i + 1) * size, Len(data)))

Last(seq) == seq[Len(seq)]
IsPrefix(a, b) == Len(a) <= Len(b) /\ a = SubSeq(b, 1, Len(a))

DeltaRan == pc \notin {"signature", "signature.blocks", "delta"}
DeltaSucceeded == pc \in {"delta.done", "patch", "patch.instructions"}
                     \/ (pc = "done" /\ d_err = NoError)
DeltaLoaded == pc \in {"delta.blocks", "delta.done"}
PatchRan == pc \in {"patch.instructions", "done"} /\ d_err = NoError
PatchEnded == pc = "done" /\ d_err = NoError
Output == Flatten(p_out)

(* The instructions yielded by delta so far: d_out without its header.     *)
Copies == {j \in 2..Len(d_out) : d_out[j][1] = TagC}
CopyIndex(j) == Unpack(SubSeq(d_out[j], 2, 1 + IntLen))
BasisMatches(block) ==
  {i \in 0..(NumBlocks(basis, block_size) - 1) :
     Md5(BlockAt(basis, i, block_size)) = Md5(block)}

(* The error kinds of the design that the code has no exception for.       *)
TruncatedDeltaStream == "TruncatedDeltaStream"

----------------------------------------------------------------------------
(* C1.  Round trip: patch, given the basis file and the delta file that    *)
(* delta wrote from signature(basis, block_size) and the new file, yields  *)
(* only bytes of the new file, in order, and ends with no exception having *)
(* yielded the whole new file.                                             *)
C1_RoundTrip ==
  (PatchRan /\ damage = "none") =>
     /\ IsPrefix(Output, new_file)
     /\ PatchEnded => (p_err = NoError /\ Output = new_file)

C1_Witness ==
  /\ PatchEnded /\ damage = "none" /\ p_err = NoError
  /\ new_file # basis
  /\ \E e \in 1..Len(p_log) : p_log[e].mode = TagC /\ p_log[e].arg > 0
  /\ \E e \in 1..Len(p_log) : p_log[e].mode = TagD

(* C2.  Tamper detection: with the delta file intact and any basis file,   *)
(* a patch run that ended having yielded bytes other than the new file     *)
(* ended with the hash mismatch exception.                                 *)
C2_TamperDetection ==
  (PatchEnded /\ damage \in {"none", "basis"} /\ Output # new_file)
     => p_err = HashMismatch

C2_Witness ==
  /\ PatchEnded /\ damage = "basis"
  /\ Output # new_file /\ Output # <<>>
  /\ p_err = HashMismatch

(* C3.  Truncated delta: a patch run over a delta file with a valid header *)
(* that reached the end of the file without having read an H ends with an  *)
(* error of the kind TruncatedDeltaStream, which is not the hash mismatch. *)
C3_TruncatedKind ==
  (/\ PatchEnded
   /\ delta_pos >= HeaderLen /\ delta_pos = Len(delta_file)
   /\ \A e \in 1..Len(p_log) : p_log[e].mode # TagH
   /\ p_err # IncorrectlyFormatted)
     => (p_err = TruncatedDeltaStream /\ p_err # HashMismatch)

(* C4.  Tie-break as claimed: every Copy yielded by delta carries the      *)
(* smallest index of a basis block with the hash of the new-file block.    *)
C4_FirstWins ==
  DeltaLoaded =>
    \A j \in Copies :
      LET m == BasisMatches(BlockAt(new_file, j - 2, block_size)) IN
        /\ CopyIndex(j) \in m
        /\ \A i \in m : CopyIndex(j) <= i

(* C4 as the code has it: the dict maps every digest of the signature to   *)
(* the index of its last occurrence, and every Copy carries the largest    *)
(* index of a basis block with the hash of the new-file block.             *)
C4_LastWins ==
  DeltaLoaded =>
    /\ \A j \in Copies :
         LET m == BasisMatches(BlockAt(new_file, j - 2, block_size)) IN
           /\ CopyIndex(j) \in m
           /\ \A i \in m : CopyIndex(j) >= i
    /\ \A i \in 0..(NumBlocks(basis, block_size) - 1) :
         LET block == BlockAt(basis, i, block_size) IN
           /\ Md5(block) \in DOMAIN signatures
           /\ signatures[Md5(block)] \in BasisMatches(block)
           /\ signatures[Md5(block)] >= i

C4_Witness ==
  /\ pc = "delta.done"
  /\ \E j \in Copies :
       /\ CopyIndex(j) > 0
       /\ Cardinality(BasisMatches(BlockAt(new_file, j - 2, block_size))) > 1

(* C5.  Shape of the delta stream: the first block yielded is the header, *)
(* every later block is an instruction, an H block is yielded only once    *)
(* the new file is exhausted and is the last block yielded, and a delta    *)
(* run that succeeded has yielded it.                                      *)
C5_DeltaShape ==
  /\ \A j \in 1..Len(d_out) :
       /\ j = 1 => d_out[j] = DltMagic \o Pack(VERSION) \o Pack(block_size)
       /\ j > 1 => d_out[j][1] \in {TagC, TagD, TagE, TagH}
       /\ (j > 1 /\ d_out[j][1] = TagH) =>
            /\ j = Len(d_out)
            /\ new_pos = Len(new_file)
            /\ pc # "delta.blocks"
            /\ d_out[j] = <<TagH>> \o Sha256(new_file)
  /\ DeltaSucceeded => (Len(d_out) >= 2 /\ Last(d_out)[1] = TagH)

C5_Witness ==
  /\ pc = "delta.done"
  /\ Len(d_out) >= 4
  /\ Last(d_out)[1] = TagH

(* C6.  Instruction selection: delta yields one instruction per block of   *)
(* the new file, in order: a Copy of a matching basis block exactly when   *)
(* the block's hash is that of a basis block, else a Literal exactly when  *)
(* the block is block_size long, else a ShortLiteral with the block's      *)
(* length; AAAABBBB / BBBBAAAA / 4 gives Copy 1, Copy 0, Checksum.         *)
InstructionsYielded ==
  Len(d_out) - 1 - (IF pc = "delta.blocks" THEN 0 ELSE 1)

C6_InstructionSelection ==
  DeltaLoaded =>
    /\ InstructionsYielded
         = NumBlocks(SubSeq(new_file, 1, new_pos), block_size)
    /\ pc = "delta.done" =>
         InstructionsYielded = NumBlocks(new_file, block_size)
    /\ \A k \in 0..(InstructionsYielded - 1) :
         LET block == BlockAt(new_file, k, block_size)
             ins == d_out[k + 2]
             m == BasisMatches(block)
         IN /\ (ins[1] = TagC) <=> (m # {})
            /\ m # {} => (Len(ins) = 1 + IntLen /\ CopyIndex(k + 2) \in m)
            /\ m = {} =>
                 ((ins = <<TagD>> \o block) <=> (Len(block) = block_size))
            /\ (m = {} /\ Len(block) # block_size) =>
                 /\ ins[1] = TagE
                 /\ Unpack(SubSeq(ins, 2, 1 + IntLen)) = Len(block)
                 /\ SubSeq(ins, 2 + IntLen, Len(ins)) = block
    /\ (/\ pc = "delta.done"
        /\ basis = <<65, 65, 65, 65, 66, 66, 66, 66>>
        /\ new_file = <<66, 66, 66, 66, 65, 65, 65, 65>>
        /\ block_size = 4) =>
         d_out = << DltMagic \o <<2, 0, 0, 0>> \o <<4, 0, 0, 0>>,
                    <<TagC, 1, 0, 0, 0>>,
                    <<TagC, 0, 0, 0, 0>>,
                    <<TagH>> \o Sha256(new_file) >>

C6_Witness ==
  /\ pc = "delta.done"
  /\ \E j \in 2..Len(d_out) : d_out[j][1] = TagC
  /\ \E j \in 2..Len(d_out) : d_out[j][1] = TagE

(* C7.  Header validation: a signature file whose first 7 bytes are not    *)
(* 'bdifsig', or whose version is not 2, makes delta raise the matching    *)
(* exception having yielded nothing and read nothing of the new file; a    *)
(* delta file likewise makes patch raise having yielded nothing and read   *)
(* nothing of the basis file.                                              *)
DeltaRejected(err) ==
  /\ pc = "done" /\ d_err = err
  /\ d_out = <<>> /\ new_reads = 0 /\ new_pos = 0

PatchRejected(err) ==
  /\ pc = "done" /\ p_err = err
  /\ p_out = <<>> /\ p_log = <<>> /\ basis_reads = 0

C7_HeaderValidation ==
  /\ DeltaRan =>
       LET magic == FileRead(sig_file, 0, MagicLen)
           version_bytes == FileRead(sig_file, MagicLen, IntLen)
       IN /\ magic # SigMagic => DeltaRejected(NotSigFile)
          /\ (/\ magic = SigMagic
              /\ Len(version_bytes) = IntLen
              /\ Unpack(version_bytes) # VERSION) =>
                DeltaRejected(UnknownSigVersion)
  /\ PatchRan =>
       LET magic == FileRead(delta_file, 0, MagicLen)
           version_bytes == FileRead(delta_file, MagicLen, IntLen)
       IN /\ magic # DltMagic => PatchRejected(NotDeltaFile)
          /\ (/\ magic = DltMagic
              /\ Len(version_bytes) = IntLen
              /\ Unpack(version_bytes) # VERSION) =>
                PatchRejected(UnknownDeltaVersion)

C7_Witness ==
  /\ PatchEnded
  /\ p_err = UnknownDeltaVersion
  /\ FileRead(delta_file, 0, MagicLen) = DltMagic
  /\ Unpack(FileRead(delta_file, MagicLen, IntLen)) > VERSION
  /\ Len(delta_file) > HeaderLen + 1 + ChecksumLen

(* C8.  Unknown instruction tag: the step of patch that reads a mode byte  *)
(* other than C, D, E, H raises the format exception, yields nothing,      *)
(* reads nothing further, and leaves what was yielded before; after the    *)
(* end of a run nothing changes any more.                                  *)
C8_UnknownTag ==
  [][ /\ (/\ pc = "patch.instructions"
          /\ delta_pos < Len(delta_file)
          /\ delta_file[delta_pos + 1] \notin {TagC, TagD, TagE, TagH}) =>
            /\ pc' = "done"
            /\ p_err' = IncorrectlyFormatted
            /\ delta_pos' = delta_pos + 1
            /\ UNCHANGED <<p_out, p_file_h, p_log, basis_reads,
                           file_h_target>>
      /\ pc = "done" => UNCHANGED vars ]_vars

C8_Witness ==
  /\ PatchEnded
  /\ p_err = IncorrectlyFormatted
  /\ p_out # <<>>
  /\ delta_pos < Len(delta_file)

(* C9.  Copy width as claimed: every C instruction patch executed appended *)
(* exactly block_size bytes of the basis file, from index * block_size.    *)
CopyEntries == {e \in 1..Len(p_log) : p_log[e].mode = TagC}

C9_CopyWidth ==
  PatchRan =>
    \A e \in CopyEntries :
      /\ Len(p_log[e].data) = p_block_size
      /\ p_log[e].data =
           SubSeq(p_basis, p_log[e].arg * p_block_size + 1,
                  p_log[e].arg * p_block_size + p_block_size)

(* C9 as the code has it: with a positive block_size in the delta header,  *)
(* a C instruction appends, to the output and to the running checksum, the *)
(* bytes of the basis file from offset index * block_size up to block_size *)
(* bytes further or the end of the file: fewer than block_size for the     *)
(* final short block, none at or beyond the end.                           *)
ClippedLen(e) ==
  LET rest == Len(p_basis) - p_log[e].arg * p_block_size IN
    IF rest < 0 THEN 0 ELSE Min(p_block_size, rest)

C9_CopyClipped ==
  (PatchRan /\ p_block_size > 0) =>
    /\ \A e \in CopyEntries :
         /\ p_log[e].arg >= 0
         /\ Len(p_log[e].data) = ClippedLen(e)
         /\ \A i \in 1..ClippedLen(e) :
              p_log[e].data[i] = p_basis[p_log[e].arg * p_block_size + i]
    /\ Len(p_out) = Cardinality({e \in 1..Len(p_log) : p_log[e].mode # TagH})
    /\ \A e \in 1..Len(p_out) : p_out[e] = p_log[e].data
    /\ p_file_h = Output

C9_Witness ==
  /\ PatchEnded
  /\ p_block_size = block_size
  /\ \E e \in CopyEntries :
       /\ Len(p_log[e].data) > 0
       /\ Len(p_log[e].data) < p_block_size
  /\ \E e \in CopyEntries : Len(p_log[e].data) = 0

(* C10.  Chunk sizes of the block reader: every chunk yielded is non-empty *)
(* and at most chunk_size long, every chunk but the last yielded is        *)
(* exactly chunk_size long, and a shorter chunk is yielded only with the   *)
(* source exhausted.                                                       *)
C10_ChunkSizes ==
  /\ \A j \in 1..Len(r_out) :
       /\ Len(r_out[j]) >= 1
       /\ Len(r_out[j]) <= r_chunk_size
       /\ j < Len(r_out) => Len(r_out[j]) = r_chunk_size
  /\ (r_out # <<>> /\ Len(Last(r_out)) < r_chunk_size) =>
       r_pos = Len(r_src)

C10_Witness ==
  /\ r_pc = "read"
  /\ Len(r_out) >= 2
  /\ Len(Last(r_out)) < r_chunk_size
  /\ r_reads >= 4

(* C11.  Retry budget as claimed: a chunk still incomplete after 10 reads  *)
(* that each returned fewer bytes than asked for makes the reader fail; no *)
(* 11th read is made for a chunk.                                          *)
C11_RetryBudget ==
  /\ r_reads <= RetryLimit
  /\ (r_pc = "fill" /\ r_pos < Len(r_src)) => r_reads < RetryLimit

(* C16.  The reader raises only on an incomplete chunk: whenever it has    *)
(* failed, the data accumulated for the chunk is shorter than chunk_size.  *)
C16_FailsOnlyIncomplete ==
  r_pc = "failed" => Len(r_data) < r_chunk_size

(* C17.  Content preservation: at every point the chunks yielded, followed *)
(* by the data of the chunk being assembled, are the bytes of the source   *)
(* consumed so far, in order; between chunks the chunks yielded alone are  *)
(* that prefix, and at the end of the sequence they are the whole source.  *)
Consumed == SubSeq(r_src, 1, r_pos)

C17_ContentPreserved ==
  /\ Flatten(r_out) \o r_data = Consumed
  /\ r_pc \in {"read", "ended"} => Flatten(r_out) = Consumed
  /\ r_pc = "ended" => Flatten(r_out) = r_src

C17_Witness ==
  /\ r_pc = "read"
  /\ Len(r_out) >= 2
  /\ r_reads >= 3
  /\ Len(Last(r_out)) = r_chunk_size
  /\ r_pos < Len(r_src)

(* C13.  Signature determinism as claimed: every finished run of signature *)
(* over a source, however its reads were split, has yielded the header and *)
(* the digests of the blocks of the source, in order.                      *)
ExpectedSignature ==
  <<SigMagic \o Pack(VERSION) \o Pack(r_chunk_size)>>
    \o [j \in 1..NumBlocks(r_src, r_chunk_size) |->
          Md5(BlockAt(r_src, j - 1, r_chunk_size))]

C18_TerminatesWithinLimit ==
  /\ <>(r_pc \in {"ended", "failed"})
  /\ [](r_reads <= RetryLimit)

(* C18, as the code has it: the reader eventually ends its sequence or     *)
(* raises, and the reads made for one chunk never exceed the first read,   *)
(* the retries the limit allows, and the one that exceeds it.              *)
C18_Terminates ==
  /\ <>(r_pc \in {"ended", "failed"})
  /\ [](r_reads <= RetryLimit + 2)

C18_Witness ==
  /\ r_pc = "failed"
  /\ r_reads = RetryLimit + 2
  /\ Len(r_data) < r_chunk_size

(* C12.  H is final: an H read by patch is the last instruction executed;  *)
(* its target is the up to 32 bytes that follow the tag, the run has ended *)
(* with the result of the comparison of the checksums, every block yielded *)
(* was yielded by an instruction before it, and what follows the target in *)
(* the delta file is not read.                                             *)
HEntries == {e \in 1..Len(p_log) : p_log[e].mode = TagH}

C12_ChecksumFinal ==
  (PatchRan /\ HEntries # {}) =>
    /\ HEntries = {Len(p_log)}
    /\ pc = "done"
    /\ Len(p_out) = Len(p_log) - 1
    /\ file_h_target = Last(p_log).data
    /\ Len(file_h_target) <= ChecksumLen
    /\ delta_pos - Len(file_h_target) >= 1
    /\ delta_file[delta_pos - Len(file_h_target)] = TagH
    /\ file_h_target
         = SubSeq(delta_file, delta_pos - Len(file_h_target) + 1, delta_pos)
    /\ (Len(file_h_target) < ChecksumLen) => delta_pos = Len(delta_file)
    /\ p_err \in {NoError, HashMismatch}
    /\ (p_err = NoError) <=> (Sha256(Output) = file_h_target)

C12_Witness ==
  /\ PatchEnded
  /\ damage = "trailing"
  /\ HEntries # {}
  /\ p_out # <<>>
  /\ delta_pos + 1 + IntLen <= Len(delta_file)
  /\ delta_file[delta_pos + 1] = TagC

(* C14.  Empty basis: with the signature of an empty basis file (a header *)
(* and no digest) the dict is empty and delta yields no Copy: every        *)
(* instruction before the Checksum is a Literal or a ShortLiteral.         *)
C14_EmptyBasis ==
  (DeltaLoaded /\ basis = <<>>) =>
    /\ Len(sig_file) = HeaderLen
    /\ DOMAIN signatures = {}
    /\ \A j \in 2..(InstructionsYielded + 1) : d_out[j][1] \in {TagD, TagE}
    /\ Copies = {}

C14_Witness ==
  /\ pc = "delta.done"
  /\ basis = <<>>
  /\ \E j \in 2..Len(d_out) : d_out[j][1] = TagD
  /\ \E j \in 2..Len(d_out) : d_out[j][1] = TagE

(* C15.  Digest count: signature yields the header and then one digest per *)
(* block of the basis file, ceil(L / S) in all, the i-th that of block i;  *)
(* with L a multiple of S every digest is that of a block of S bytes, and  *)
(* with L = 0 there is none.                                               *)
C15_DigestCount ==
  /\ pc = "signature.blocks" =>
       /\ sig_out[1] = SigMagic \o Pack(VERSION) \o Pack(block_size)
       /\ Len(sig_out) - 1
            = NumBlocks(SubSeq(basis, 1, sig_pos), block_size)
  /\ pc = "delta" =>
       /\ Len(sig_out) = 1 + (Len(basis) + block_size - 1) \div block_size
       /\ sig_out[1] = SigMagic \o <<2, 0, 0, 0>> \o <<block_size, 0, 0, 0>>
       /\ \A i \in 0..(Len(sig_out) - 2) :
            /\ sig_out[i + 2] = Md5(BlockAt(basis, i, block_size))
            /\ Len(sig_out[i + 2]) = DigestLen
            /\ (Len(basis) % block_size = 0) =>
                 Len(BlockAt(basis, i, block_size)) = block_size
       /\ (Len(basis) = 0) => Len(sig_out) = 1

C15_Witness ==
  /\ pc = "delta"
  /\ Len(sig_out) = 3
  /\ Len(basis) % block_size # 0

====
